---- MODULE Spec2Model ----
(***************************************************************************)
(* Model of src/src/index.ts: the GitHub stats card endpoint.              *)
(*                                                                         *)
(* buildResponse is a state machine over its await points (route, the two  *)
(* concurrent fetches, Promise.all, the ok check, the two JSON decodes,    *)
(* the aggregation, generateSVG, the catch block).  generateSVG and the    *)
(* aggregation are operators computed as the code computes them; numbers   *)
(* that the code computes with fractional parts (percentage, barWidth) are *)
(* IEEE-754 doubles, modelled bit for bit with round-to-nearest-even.      *)
(***************************************************************************)
EXTENDS Integers, Sequences, FiniteSets, TLC

(***************************************************************************)
(* Bounds of the model.                                                    *)
(***************************************************************************)
\* longest repository list decoded in Spec (the whole request)
MaxRepos == 2
\* longest repository list aggregated in SpecAgg
MaxAggRepos == 5
\* longest topLanguages list rendered in SpecRender
MaxLangs == 5

(***************************************************************************)
(* JavaScript values that may be absent.  `def` says a value is there;     *)
(* when none is, `isNull` tells null from undefined (a missing property).  *)
(***************************************************************************)
Null == [def |-> FALSE, isNull |-> TRUE, v |-> ""]
Undefined == [def |-> FALSE, isNull |-> FALSE, v |-> ""]
Str(s) == [def |-> TRUE, isNull |-> FALSE, v |-> s]
NullNum == [def |-> FALSE, isNull |-> TRUE, v |-> 0]
NoNum == [def |-> FALSE, isNull |-> FALSE, v |-> 0]
Num(n) == [def |-> TRUE, isNull |-> FALSE, v |-> n]

\* truthiness of an optional string: null, undefined and "" are falsy
TruthyStr(x) == x.def /\ x.v # ""
\* `x || 0` on an optional count: null, undefined and 0 give 0
OrZero(x) == IF x.def /\ x.v # 0 THEN x.v ELSE 0
\* `${x}` of an optional string
Interpolate(x) == IF x.def THEN x.v ELSE IF x.isNull THEN "null" ELSE "undefined"

(***************************************************************************)
(* IEEE-754 binary64 arithmetic on non-negative finite values.             *)
(* A value is m * 2^e with m a sequence of Prec bits, most significant     *)
(* first and leading bit 1, or Zero.  Every operation computes the exact   *)
(* result and rounds it to nearest, ties to even.                          *)
(***************************************************************************)
Prec == 53

Zeros(n) == [i \in 1..n |-> 0]

RECURSIVE Strip(_)
Strip(bs) == IF bs = <<>> THEN <<>> ELSE IF Head(bs) = 1 THEN bs ELSE Strip(Tail(bs))

RECURSIVE NatBits(_)
NatBits(n) == IF n = 0 THEN <<>> ELSE Append(NatBits(n \div 2), n % 2)

RECURSIVE IncBits(_)
IncBits(bs) ==
  IF bs = <<>> THEN <<1>>
  ELSE IF bs[Len(bs)] = 0 THEN [bs EXCEPT ![Len(bs)] = 1]
  ELSE Append(IncBits(SubSeq(bs, 1, Len(bs) - 1)), 0)

Zero == [m |-> <<>>, e |-> 0]

\* bs * 2^e (plus a nonzero fraction of its last place when sticky), rounded
RoundBits(bs, e, sticky) ==
  LET L == Len(bs) IN
  IF L = 0 THEN Zero
  ELSE IF L <= Prec THEN [m |-> bs \o Zeros(Prec - L), e |-> e - (Prec - L)]
  ELSE LET keep == SubSeq(bs, 1, Prec)
           guard == bs[Prec + 1]
           below == sticky \/ \E i \in (Prec + 2)..L : bs[i] = 1
           up == guard = 1 /\ (below \/ keep[Prec] = 1)
           e2 == e + (L - Prec)
           inc == IncBits(keep)
       IN IF ~up THEN [m |-> keep, e |-> e2]
          ELSE IF Len(inc) > Prec THEN [m |-> SubSeq(inc, 1, Prec), e |-> e2 + 1]
          ELSE [m |-> inc, e |-> e2]

\* one step of the long division of a bit string by the small integer k
DivStep(s, k) ==
  LET done == s.rest = <<>>
      r2 == 2 * s.r + (IF done THEN 0 ELSE Head(s.rest))
      qb == IF r2 >= k THEN 1 ELSE 0
  IN [rest |-> IF done THEN <<>> ELSE Tail(s.rest),
      r |-> r2 - qb * k,
      q |-> IF s.q = <<>> /\ qb = 0 THEN <<>> ELSE Append(s.q, qb),
      e |-> IF done THEN s.e - 1 ELSE s.e]

RECURSIVE DivLoop(_, _)
DivLoop(s, k) ==
  IF s.rest = <<>> /\ (s.r = 0 \/ Len(s.q) = Prec + 1) THEN RoundBits(s.q, s.e, s.r # 0)
  ELSE DivLoop(DivStep(s, k), k)

DivBits(bs, e, k) == DivLoop([rest |-> bs, r |-> 0, q |-> <<>>, e |-> e], k)

\* a / b for two integers held as doubles
FDivInts(a, b) == DivBits(NatBits(a), 0, b)
\* x / k for a double x and a small integer k
FDivSmall(x, k) == DivBits(x.m, x.e, k)

RECURSIVE MulAt(_, _, _)
MulAt(bs, k, s) ==
  IF s.i = 0 THEN NatBits(s.carry) \o s.acc
  ELSE LET v == bs[s.i] * k + s.carry
       IN MulAt(bs, k, [i |-> s.i - 1, carry |-> v \div 2, acc |-> <<v % 2>> \o s.acc])

\* the exact product of a bit string and the small integer k
MulBits(bs, k) == Strip(MulAt(bs, k, [i |-> Len(bs), carry |-> 0, acc |-> <<>>]))

\* x * k for a double x and a small integer k
FMulSmall(x, k) == RoundBits(MulBits(x.m, k), x.e, FALSE)

RECURSIVE AddAt(_, _, _)
AddAt(a, b, s) ==
  IF s.i = 0 THEN (IF s.carry = 1 THEN <<1>> \o s.acc ELSE s.acc)
  ELSE LET v == a[s.i] + b[s.i] + s.carry
       IN AddAt(a, b, [i |-> s.i - 1, carry |-> v \div 2, acc |-> <<v % 2>> \o s.acc])

Min(a, b) == IF a <= b THEN a ELSE b
Max(a, b) == IF a >= b THEN a ELSE b

\* the bits of x at exponent e, padded on the left to n bits
Aligned(x, e, n) == LET s == x.m \o Zeros(x.e - e) IN Zeros(n - Len(s)) \o s
Width(x, e) == Len(x.m) + (x.e - e)

\* the exact (unrounded) sum of two values
ExactAdd(x, y) ==
  IF x.m = <<>> THEN y ELSE IF y.m = <<>> THEN x
  ELSE LET e == Min(x.e, y.e)
           n == Max(Width(x, e), Width(y, e))
       IN [m |-> Strip(AddAt(Aligned(x, e, n), Aligned(y, e, n),
                             [i |-> n, carry |-> 0, acc |-> <<>>])),
           e |-> e]

\* x + y in double arithmetic
FAdd(x, y) == LET s == ExactAdd(x, y) IN RoundBits(s.m, s.e, FALSE)

RECURSIVE LexLeq(_, _, _)
LexLeq(a, b, i) ==
  IF i > Len(a) THEN TRUE
  ELSE IF a[i] < b[i] THEN TRUE
  ELSE IF a[i] > b[i] THEN FALSE
  ELSE LexLeq(a, b, i + 1)

\* x <= y, for rounded or exact values
Leq(x, y) ==
  IF x.m = <<>> THEN TRUE ELSE IF y.m = <<>> THEN FALSE
  ELSE LET e == Min(x.e, y.e)
           n == Max(Width(x, e), Width(y, e))
       IN LexLeq(Aligned(x, e, n), Aligned(y, e, n), 1)

\* NaN, which no arithmetic on the values above gives
NaN == [m |-> <<>>, e |-> 0, nan |-> TRUE]
IsNaN(x) == x = NaN

\* the integer n as a double
F(n) == RoundBits(NatBits(n), 0, FALSE)
\* Math.max on two doubles
FMax(x, y) == IF Leq(x, y) THEN y ELSE x
\* the exact product of a value and a small integer
ExactMul(x, k) == [m |-> MulBits(x.m, k), e |-> x.e]
\* 2^(-n)
TwoToMinus(n) == [m |-> <<1>>, e |-> -n]
\* |x - y| <= d, for exact or rounded values
Within(x, y, d) == Leq(x, ExactAdd(y, d)) /\ Leq(y, ExactAdd(x, d))

(***************************************************************************)
(* Configuration tables.                                                   *)
(***************************************************************************)
themes ==
  [default  |-> [bg |-> <<"#0d1117", "#161b22">>, border |-> "#30363d", text |-> "#c9d1d9",
                 title |-> "#58a6ff", icon |-> "#8b949e", ring |-> "#2f81f7"],
   ocean    |-> [bg |-> <<"#0f172a", "#1e293b">>, border |-> "#334155", text |-> "#94a3b8",
                 title |-> "#38bdf8", icon |-> "#64748b", ring |-> "#0ea5e9"],
   midnight |-> [bg |-> <<"#000000", "#1a1a1a">>, border |-> "#333333", text |-> "#eeeeee",
                 title |-> "#ff006e", icon |-> "#888888", ring |-> "#ffbe0b"]]

\* `themes` is an object literal: besides its own keys it answers to the
\* names it inherits from Object.prototype, with a function or an object
\* that has none of the palette fields
ObjectPrototypeKeys ==
  {"constructor", "toString", "toLocaleString", "valueOf", "hasOwnProperty",
   "isPrototypeOf", "propertyIsEnumerable", "__proto__",
   "__defineGetter__", "__defineSetter__", "__lookupGetter__", "__lookupSetter__"}

\* what a read of an absent palette field gives
NoPalette ==
  [bg |-> <<>>, border |-> "undefined", text |-> "undefined",
   title |-> "undefined", icon |-> "undefined", ring |-> "undefined"]

\* themes[key]
themesGet(key) ==
  IF key \in DOMAIN themes THEN [kind |-> "own", pal |-> themes[key]]
  ELSE IF key \in ObjectPrototypeKeys THEN [kind |-> "inherited", pal |-> NoPalette]
  ELSE [kind |-> "undefined", pal |-> NoPalette]

langColors ==
  [JavaScript |-> "#f1e05a", TypeScript |-> "#3178c6", Python |-> "#3572A5",
   Java |-> "#b07219", Go |-> "#00ADD8", Rust |-> "#dea584",
   HTML |-> "#e34c26", CSS |-> "#563d7c", Vue |-> "#41b883", React |-> "#61dafb"]

\* the glyphs, by name (the path data is not modelled)
icons == [repo |-> "repo", star |-> "star", fork |-> "fork", commit |-> "commit"]

(***************************************************************************)
(* generateSVG.  The document is the structure the template emits: one     *)
(* record per element, one field per attribute.                            *)
(***************************************************************************)
width == 460
height == 200

DigitChar == <<"0", "1", "2", "3", "4", "5", "6", "7", "8", "9">>

RECURSIVE Digits(_)
Digits(n) == IF n < 10 THEN <<DigitChar[n + 1]>> ELSE Append(Digits(n \div 10), DigitChar[(n % 10) + 1])

\* value.toLocaleString() takes no locale argument: the digits are grouped
\* as the default locale of the runtime groups them.  A locale's grouping is
\* its separator, the size of the rightmost group, the size of the groups
\* left of it, and the fewest digits the leftmost group of a grouped number
\* has (with 2, a four-digit number is left ungrouped).
\* the separator of fr-FR is the one character U+202F, written by its code point
NarrowNoBreakSpace == "U+202F"
Grouping ==
  [en_US |-> [sep |-> ",", first |-> 3, rest |-> 3, minimum |-> 1],
   de_DE |-> [sep |-> ".", first |-> 3, rest |-> 3, minimum |-> 1],
   fr_FR |-> [sep |-> NarrowNoBreakSpace, first |-> 3, rest |-> 3, minimum |-> 1],
   en_IN |-> [sep |-> ",", first |-> 3, rest |-> 2, minimum |-> 1],
   es_ES |-> [sep |-> ".", first |-> 3, rest |-> 3, minimum |-> 2]]
Locales == DOMAIN Grouping

\* Number.prototype.toLocaleString of a non-negative integer under locale loc
toLocaleString(n, loc) ==
  LET g == Grouping[loc]
      ds == Digits(n)
      L == Len(ds)
      grouped == L >= g.first + g.minimum
      \* r digits stand right of digit i
      breaks(r) == grouped /\ r >= g.first /\ (r - g.first) % g.rest = 0
      piece(i) == IF i < L /\ breaks(L - i) THEN <<ds[i], g.sep>> ELSE <<ds[i]>>
      Join[i \in 0..L] == IF i = 0 THEN <<>> ELSE Join[i - 1] \o piece(i)
  IN Join[L]

\* class="${animate ? c : ''}"
ClassAttr(animate, c) == IF animate THEN c ELSE ""

\* style="animation-delay:${ms}ms", emitted whatever animate is
StyleAttr(animate, ms) == <<[prop |-> "animation-delay", ms |-> ms]>>

\* renderStat: `value` is an optional number; value.toLocaleString() throws
\* on null and on undefined
renderStat(animate, loc, x, y, icon, label, value, delay) ==
  [x |-> x, y |-> y, class |-> ClassAttr(animate, "fade"), style |-> StyleAttr(animate, delay),
   icon |-> icon, iconScale |-> <<12, 10>>,
   value |-> IF value.def THEN toLocaleString(value.v, loc) ELSE <<>>, valueAt |-> <<28, 12>>,
   label |-> label, labelAt |-> <<0, 32>>]

\* the bar width without its floor of 10
barWidthNoFloor(percentage) ==
  IF IsNaN(percentage) THEN NaN ELSE FMulSmall(FDivSmall(percentage, 100), 120)

\* Math.max(10, (l.percentage / 100) * 120): NaN for a NaN percentage
barWidth(percentage) ==
  IF IsNaN(percentage) THEN NaN
  ELSE FMax(F(10), FMulSmall(FDivSmall(percentage, 100), 120))

\* `${v}` of the member an object literal inherits under `name`: the object
\* Object.prototype for __proto__, a native function for every other name
inheritedText(name) ==
  IF name = "__proto__" THEN "[object Object]"
  ELSE IF name = "constructor" THEN "function Object() { [native code] }"
  ELSE "function " \o name \o "() { [native code] }"

\* langColors[l.name] || t.ring, as fill="${color}" prints it: langColors is
\* an object literal too, and an inherited member is truthy
langColor(name, t) ==
  IF name \in DOMAIN langColors THEN langColors[name]
  ELSE IF name \in ObjectPrototypeKeys THEN inheritedText(name)
  ELSE t.ring

\* stats.topLanguages.slice(0, 4)
sliceLangs(topLanguages) == SubSeq(topLanguages, 1, Min(4, Len(topLanguages)))

\* renderLangs: one row per sliced entry, i the 0-based index
renderLangs(stats, t, animate) ==
  LET shown == sliceLangs(stats.topLanguages) IN
  [k \in 1..Len(shown) |->
     LET l == shown[k]
         i == k - 1
     IN [y |-> i * 28, name |-> l.name, track |-> 120,
         barWidth |-> barWidth(l.percentage), color |-> langColor(l.name, t),
         class |-> ClassAttr(animate, "grow"), style |-> StyleAttr(animate, (i + 2) * 150)]]

\* the divider ending at width - 75
dividerShort(t) == [x1 |-> 0, y1 |-> 35, x2 |-> width - 75, y2 |-> 35, stroke |-> t.border]

\* <line x1="0" y1="35" x2="${width-50}" y2="35" stroke="${t.border}" />
divider(t) == [x1 |-> 0, y1 |-> 35, x2 |-> width - 50, y2 |-> 35, stroke |-> t.border]

\* the four values handed to renderStat, in template order
statValues(stats) ==
  <<Num(stats.totalStars), Num(stats.totalCommits), stats.totalRepos, Num(stats.totalForks)>>

\* generateSVG(stats, themeKey, animate) under the default locale loc: the
\* document, or a TypeError (t.bg[0] on a value without bg, toLocaleString
\* on null or undefined)
generateSVG(stats, themeKey, animate, loc) ==
  LET look == themesGet(themeKey)
      found == IF look.kind # "undefined" THEN look ELSE themesGet("default")
      t == found.pal
      vals == statValues(stats)
      threw == found.kind = "inherited" \/ \E i \in 1..4 : ~vals[i].def
      doc == [width |-> width, height |-> height, viewBox |-> <<0, 0, width, height>>,
              css |-> [title |-> t.title, text |-> t.text, icon |-> t.icon,
                       classes |-> {"fade", "grow"}],
              grad |-> t.bg,
              frame |-> [width |-> width, height |-> height, rx |-> 10, stroke |-> t.border],
              origin |-> <<25, 25>>,
              title |-> [x |-> 0, y |-> 15, text |-> <<"@", Interpolate(stats.username)>>],
              divider |-> divider(t),
              statsAt |-> <<0, 60>>,
              stats |-> <<renderStat(animate, loc, 0, 0, icons.star, "Total Stars", vals[1], 100),
                          renderStat(animate, loc, 110, 0, icons.commit, "Commits", vals[2], 200),
                          renderStat(animate, loc, 0, 55, icons.repo, "Repos", vals[3], 300),
                          renderStat(animate, loc, 110, 55, icons.fork, "Forks", vals[4], 400)>>,
              langsAt |-> <<220, 55>>,
              langs |-> renderLangs(stats, t, animate)]
  IN IF threw THEN [threw |-> TRUE, doc |-> <<>>] ELSE [threw |-> FALSE, doc |-> <<doc>>]

(***************************************************************************)
(* Query parsing.                                                          *)
(***************************************************************************)
\* parseBoolean(value, defaultValue)
parseBoolean(value, defaultValue) ==
  IF ~value.def /\ value.isNull THEN defaultValue ELSE ~(value.def /\ value.v = "false")

\* (themeParam && themes[themeParam]) ? themeParam : "default"
resolveTheme(themeParam) ==
  IF TruthyStr(themeParam) /\ themesGet(themeParam.v).kind # "undefined"
  THEN themeParam.v ELSE "default"

(***************************************************************************)
(* The aggregation of buildResponse.  `languages` is a plain object used   *)
(* as a map, so a count is a number or, for a language named like a member *)
(* of Object.prototype, a string: a value is [num, n, s].                  *)
(***************************************************************************)
JsNum(n) == [num |-> TRUE, n |-> n, s |-> ""]
JsStr(s) == [num |-> FALSE, n |-> 0, s |-> s]

\* truthiness of a number or string
Truthy(v) == IF v.num THEN v.n # 0 ELSE v.s # ""

\* String(n) of a non-negative integer
RECURSIVE NumToStr(_)
NumToStr(n) ==
  IF n < 10 THEN DigitChar[n + 1] ELSE NumToStr(n \div 10) \o DigitChar[(n % 10) + 1]

\* String(v)
ToStr(v) == IF v.num THEN NumToStr(v.n) ELSE v.s

\* a + b: the sum of two numbers, the concatenation once one is a string
Plus(a, b) == IF a.num /\ b.num THEN JsNum(a.n + b.n) ELSE JsStr(ToStr(a) \o ToStr(b))

\* the largest array index, 2^32 - 2
MaxArrayIndex == "4294967294"

IsDigit(c) == \E d \in 1..10 : DigitChar[d] = c
DigitValue(c) == (CHOOSE d \in 1..10 : DigitChar[d] = c) - 1

\* a <= b for two digit strings of one length
RECURSIVE DigitsLeq(_, _)
DigitsLeq(a, b) ==
  IF a = "" THEN TRUE
  ELSE IF DigitValue(Head(a)) < DigitValue(Head(b)) THEN TRUE
  ELSE IF DigitValue(Head(a)) > DigitValue(Head(b)) THEN FALSE
  ELSE DigitsLeq(Tail(a), Tail(b))

\* a property name that is an array index: the canonical decimal form of an
\* integer from 0 to 2^32 - 2
isArrayIndex(name) ==
  /\ Len(name) \in 1..10
  /\ \A i \in 1..Len(name) : IsDigit(SubSeq(name, i, i))
  /\ (Len(name) > 1 => Head(name) # "0")
  /\ (Len(name) = 10 => DigitsLeq(name, MaxArrayIndex))

\* numeric order of two array indices
indexLess(a, b) == Len(a) < Len(b) \/ (Len(a) = Len(b) /\ a # b /\ DigitsLeq(a, b))

\* a read of languages[name], where `languages` holds the own properties in
\* the order they were created: an own count, a member inherited from
\* Object.prototype (as the text `+` makes of it), or undefined
languagesGet(languages, name) ==
  IF \E i \in 1..Len(languages) : languages[i].name = name
  THEN [kind |-> "own",
        value |-> languages[CHOOSE i \in 1..Len(languages) : languages[i].name = name].count]
  ELSE IF name \in ObjectPrototypeKeys
  THEN [kind |-> "inherited", value |-> JsStr(inheritedText(name))]
  ELSE [kind |-> "undefined", value |-> JsNum(0)]

\* languages[name] = (languages[name] || 0) + 1.  An inherited member is
\* truthy, so 1 is appended to its text; the assignment makes an own
\* property, except under __proto__, whose setter ignores a string.
bumpLanguage(languages, name) ==
  LET old == languagesGet(languages, name)
      orZero == IF old.kind # "undefined" /\ Truthy(old.value) THEN old.value ELSE JsNum(0)
      new == Plus(orZero, JsNum(1))
  IN IF name = "__proto__" THEN languages
     ELSE IF old.kind = "own"
     THEN [i \in 1..Len(languages) |->
             IF languages[i].name = name
             THEN [languages[i] EXCEPT !.count = new] ELSE languages[i]]
     ELSE Append(languages, [name |-> name, count |-> new])

\* the loop body with the fork total fed from stargazers_count
visitRepoForksFromStars(acc, repo) ==
  [totalStars |-> acc.totalStars + OrZero(repo.stargazers_count),
   totalForks |-> acc.totalForks + OrZero(repo.stargazers_count),
   languages |-> IF TruthyStr(repo.language)
                 THEN bumpLanguage(acc.languages, repo.language.v) ELSE acc.languages]

\* the body of repos.forEach for one repo
visitRepo(acc, repo) ==
  [totalStars |-> acc.totalStars + OrZero(repo.stargazers_count),
   totalForks |-> acc.totalForks + OrZero(repo.forks_count),
   languages |-> IF TruthyStr(repo.language)
                 THEN bumpLanguage(acc.languages, repo.language.v) ELSE acc.languages]

RECURSIVE forEachRepo(_, _, _)
forEachRepo(repos, i, acc) ==
  IF i > Len(repos) THEN acc ELSE forEachRepo(repos, i + 1, visitRepo(acc, repos[i]))

\* the order Object.entries and Object.values list the own properties in:
\* array indices by ascending value, then the other names as created
ownEntries(languages) ==
  LET idx == SelectSeq(languages, LAMBDA e : isArrayIndex(e.name))
      rest == SelectSeq(languages, LAMBDA e : ~isArrayIndex(e.name))
      rank(i) == 1 + Cardinality({j \in 1..Len(idx) : indexLess(idx[j].name, idx[i].name)})
  IN [k \in 1..Len(idx) |-> idx[CHOOSE i \in 1..Len(idx) : rank(i) = k]] \o rest

\* Object.values(languages).reduce((sum, count) => sum + count, 0)
RECURSIVE sumCounts(_, _, _)
sumCounts(entries, i, sum) ==
  IF i > Len(entries) THEN sum ELSE sumCounts(entries, i + 1, Plus(sum, entries[i].count))

\* ([, a], [, b]) => b - a on entries x and y, as the sort reads the result:
\* a string count makes it NaN, which counts as 0
compare(x, y) == IF x.count.num /\ y.count.num THEN y.count.n - x.count.n ELSE 0

\* Array.prototype.sort on fewer than 64 elements, as V8 runs it: the
\* leading run is found (and reversed when strictly descending), then the
\* other elements are put in place by binary insertion.  With number counts
\* this is the stable sort by count descending; with a string count the
\* comparison is inconsistent and the order is what these steps give.
RECURSIVE runEnd(_, _, _)
runEnd(a, descending, idx) ==
  IF idx > Len(a) THEN idx - 1
  ELSE LET order == compare(a[idx], a[idx - 1])
       IN IF (descending /\ order >= 0) \/ (~descending /\ order < 0)
          THEN idx - 1
          ELSE runEnd(a, descending, idx + 1)

countAndMakeRun(a) ==
  LET descending == compare(a[2], a[1]) < 0
      runLength == runEnd(a, descending, 3)
  IN [runLength |-> runLength,
      a |-> IF descending
            THEN [i \in 1..Len(a) |-> IF i <= runLength THEN a[runLength + 1 - i] ELSE a[i]]
            ELSE a]

RECURSIVE bisect(_, _, _, _)
bisect(a, pivot, left, right) ==
  IF left >= right THEN left
  ELSE LET mid == left + ((right - left) \div 2)
       IN IF compare(pivot, a[mid]) < 0
          THEN bisect(a, pivot, left, mid)
          ELSE bisect(a, pivot, mid + 1, right)

RECURSIVE binaryInsertionSort(_, _)
binaryInsertionSort(a, start) ==
  IF start > Len(a) THEN a
  ELSE LET left == bisect(a, a[start], 1, start)
           moved == [i \in 1..Len(a) |->
                       IF i < left \/ i > start THEN a[i]
                       ELSE IF i = left THEN a[start] ELSE a[i - 1]]
       IN binaryInsertionSort(moved, start + 1)

\* Object.entries(languages).sort(([, a], [, b]) => b - a)
sortByCount(entries) ==
  IF Len(entries) < 2 THEN entries
  ELSE LET run == countAndMakeRun(entries)
       IN binaryInsertionSort(run.a, run.runLength + 1)

\* totalCount ? (count / totalCount) * 100 : 0, NaN once count or
\* totalCount is a string (none of the strings that arise reads as a number)
percentage(count, totalCount) ==
  IF ~Truthy(totalCount) THEN Zero
  ELSE IF count.num /\ totalCount.num
  THEN FMulSmall(FDivInts(count.n, totalCount.n), 100)
  ELSE NaN

\* lines 174-193: totals and topLanguages of a decoded repository array
aggregate(repos) ==
  LET acc == forEachRepo(repos, 1, [totalStars |-> 0, totalForks |-> 0, languages |-> <<>>])
      entries == ownEntries(acc.languages)
      totalCount == sumCounts(entries, 1, JsNum(0))
      sorted == sortByCount(entries)
  IN [totalStars |-> acc.totalStars, totalForks |-> acc.totalForks,
      topLanguages |-> [k \in 1..Len(sorted) |->
                          [name |-> sorted[k].name, count |-> sorted[k].count,
                           percentage |-> percentage(sorted[k].count, totalCount)]]]

\* lines 195-202: the GitHubStats value
makeStats(userData, agg) ==
  [username |-> userData.login, totalRepos |-> userData.public_repos,
   totalStars |-> agg.totalStars, totalForks |-> agg.totalForks,
   totalCommits |-> 0, topLanguages |-> agg.topLanguages]

(***************************************************************************)
(* State of one call of buildResponse.                                     *)
(***************************************************************************)
VARIABLES
  url,         \* the request: pathname and the three query parameters
  pc,          \* where buildResponse stands
  theme,       \* the resolved theme key (line 142)
  animate,     \* the resolved animate flag (line 143)
  userFetch,   \* the profile fetch: idle, pending, ok, notok, rejected
  reposFetch,  \* the repository-list fetch, likewise
  userData,    \* what userRes.json() gave
  repos,       \* what reposRes.json() gave
  stats,       \* the GitHubStats value
  aggregated,  \* the forEach over repos has run
  rendered,    \* generateSVG has been called
  response,    \* the ResponsePayload returned
  locale       \* the default locale of the runtime, fixed when it starts

vars == <<url, pc, theme, animate, userFetch, reposFetch, userData, repos, stats,
          aggregated, rendered, response, locale>>

(***************************************************************************)
(* Inputs.                                                                 *)
(***************************************************************************)
Pathnames == {"/", "/api/stats", "/favicon.ico"}
Usernames == {Null, Str(""), Str("alice")}
RegisteredThemes == {"default", "ocean", "midnight"}
ThemeParams ==
  {Null, Str(""), Str("default"), Str("ocean"), Str("midnight"),
   Str("nonexistent"), Str("toString"), Str("constructor"), Str("__defineGetter__")}
AnimateParams == {Null, Str("false"), Str("true")}

\* how a fetch settles: resolved with ok, resolved with a non-2xx status, rejected
FetchOutcomes == {"ok", "notok", "rejected"}

\* what userRes.json() can give: a rejection (the body is no JSON), null,
\* or an object whose login and public_repos may be missing or null
NoUserData == [kind |-> "none", login |-> Undefined, public_repos |-> NoNum]
UserBodies ==
  {[kind |-> "undecodable", login |-> Undefined, public_repos |-> NoNum],
   [kind |-> "null", login |-> Undefined, public_repos |-> NoNum]}
  \cup [kind : {"object"}, login : {Undefined, Null, Str("alice")},
        public_repos : {NoNum, NullNum, Num(1234)}]

\* repository records: counts may be missing or null, language may be null
Repo(s, f, l) == [stargazers_count |-> s, forks_count |-> f, language |-> l]
RepoSamples ==
  {Repo(Num(10), Num(2), Str("Go")),
   Repo(NoNum, NoNum, Null),
   Repo(NullNum, Num(4), Str("TypeScript"))}
\* more records for the longer lists of the aggregation, three of them with a
\* language named like a member of Object.prototype or like an array index
AggSamples ==
  RepoSamples
  \cup {Repo(Num(3), NoNum, Str("Zig")),
        Repo(Num(1), Num(1), Str("constructor")),
        Repo(Num(0), Num(0), Str("__proto__")),
        Repo(Num(2), Num(0), Str("1"))}

SeqsUpTo(S, n) == UNION {[1..k -> S] : k \in 0..n}

\* what reposRes.json() can give: a rejection, a value that is no array, an array
NoRepos == [kind |-> "none", items |-> <<>>]
RepoBodies(S, n) ==
  {[kind |-> "undecodable", items |-> <<>>], [kind |-> "object", items |-> <<>>]}
  \cup [kind : {"array"}, items : SeqsUpTo(S, n)]

NoStats ==
  [username |-> Undefined, totalRepos |-> NoNum, totalStars |-> 0, totalForks |-> 0,
   totalCommits |-> 0, topLanguages |-> <<>>]

(***************************************************************************)
(* Responses.                                                              *)
(***************************************************************************)
NoResponse == [status |-> 0, headers |-> <<>>, body |-> [text |-> "", svg |-> <<>>]]

textResponse(status, text) ==
  [status |-> status,
   headers |-> <<<<"Content-Type", "text/plain; charset=utf-8">>>>,
   body |-> [text |-> text, svg |-> <<>>]]

svgResponse(doc) ==
  [status |-> 200,
   headers |-> <<<<"Content-Type", "image/svg+xml">>,
                 <<"Cache-Control", "public, max-age=1800">>>>,
   body |-> [text |-> "", svg |-> <<doc>>]]

\* lines 213-220
catchResponse == textResponse(500, "Error fetching data")
\* lines 163-169
badGatewayResponse == textResponse(502, "Error fetching data")
\* lines 145-151
missingUsernameResponse == textResponse(400, "Missing username")

(***************************************************************************)
(* buildResponse, step by step.                                            *)
(***************************************************************************)
Init ==
  /\ url \in [pathname : Pathnames, username : Usernames,
              theme : ThemeParams, animate : AnimateParams]
  /\ pc = "start"
  /\ theme = "unset"
  /\ animate = TRUE
  /\ userFetch = "idle"
  /\ reposFetch = "idle"
  /\ userData = NoUserData
  /\ repos = NoRepos
  /\ stats = NoStats
  /\ aggregated = FALSE
  /\ rendered = FALSE
  /\ response = NoResponse
  /\ locale \in Locales

\* the username check as `username === ""`: an absent parameter passes
usernameMissingOnlyEmpty(username) == username.def /\ username.v = ""

\* `!username`
usernameMissing(username) == ~TruthyStr(username)

\* lines 122-161: routing, query parsing, and the two fetch calls
Route ==
  /\ pc = "start"
  /\ UNCHANGED <<url, userData, repos, stats, aggregated, rendered, locale>>
  /\ IF url.pathname = "/"
     THEN /\ response' = textResponse(200, "GitHub Stats API running")
          /\ pc' = "done"
          /\ UNCHANGED <<theme, animate, userFetch, reposFetch>>
     ELSE IF url.pathname # "/api/stats"
     THEN /\ response' = textResponse(404, "Not Found")
          /\ pc' = "done"
          /\ UNCHANGED <<theme, animate, userFetch, reposFetch>>
     ELSE /\ theme' = resolveTheme(url.theme)
          /\ animate' = parseBoolean(url.animate, TRUE)
          /\ IF usernameMissing(url.username)
             THEN /\ response' = missingUsernameResponse
                  /\ pc' = "done"
                  /\ UNCHANGED <<userFetch, reposFetch>>
             ELSE /\ userFetch' = "pending"
                  /\ reposFetch' = "pending"
                  /\ pc' = "awaitAll"
                  /\ UNCHANGED response

\* the profile fetch settles
SettleUser ==
  /\ userFetch = "pending"
  /\ \E o \in FetchOutcomes : userFetch' = o
  /\ UNCHANGED <<url, pc, theme, animate, reposFetch, userData, repos, stats,
                 aggregated, rendered, response, locale>>

\* the repository-list fetch settles
SettleRepos ==
  /\ reposFetch = "pending"
  /\ \E o \in FetchOutcomes : reposFetch' = o
  /\ UNCHANGED <<url, pc, theme, animate, userFetch, userData, repos, stats,
                 aggregated, rendered, response, locale>>

\* Promise.all over the two fetches: rejected as soon as one is rejected,
\* fulfilled once both are fulfilled, pending otherwise
promiseAll(u, r) ==
  IF u = "rejected" \/ r = "rejected" THEN "rejected"
  ELSE IF u = "pending" \/ r = "pending" THEN "pending"
  ELSE "fulfilled"

\* line 158: await Promise.all([...])
AwaitAll ==
  /\ pc = "awaitAll"
  /\ promiseAll(userFetch, reposFetch) # "pending"
  /\ pc' = IF promiseAll(userFetch, reposFetch) = "rejected" THEN "catch" ELSE "checkOk"
  /\ UNCHANGED <<url, theme, animate, userFetch, reposFetch, userData, repos, stats,
                 aggregated, rendered, response, locale>>

\* the ok check with && for ||: only both failing counts
upstreamNotOkBothFailed(u, r) == u # "ok" /\ r # "ok"

\* !userRes.ok || !reposRes.ok
upstreamNotOk(u, r) == u # "ok" \/ r # "ok"

\* lines 163-169
CheckOk ==
  /\ pc = "checkOk"
  /\ IF upstreamNotOk(userFetch, reposFetch)
     THEN /\ response' = badGatewayResponse
          /\ pc' = "done"
     ELSE /\ pc' = "jsonUser"
          /\ UNCHANGED response
  /\ UNCHANGED <<url, theme, animate, userFetch, reposFetch, userData, repos, stats,
                 aggregated, rendered, locale>>

\* line 171: await userRes.json()
JsonUser ==
  /\ pc = "jsonUser"
  /\ \E body \in UserBodies :
       IF body.kind = "undecodable"
       THEN pc' = "catch" /\ UNCHANGED userData
       ELSE pc' = "jsonRepos" /\ userData' = body
  /\ UNCHANGED <<url, theme, animate, userFetch, reposFetch, repos, stats,
                 aggregated, rendered, response, locale>>

\* line 172: await reposRes.json()
JsonRepos ==
  /\ pc = "jsonRepos"
  /\ \E body \in RepoBodies(RepoSamples, MaxRepos) :
       IF body.kind = "undecodable"
       THEN pc' = "catch" /\ UNCHANGED repos
       ELSE pc' = "aggregate" /\ repos' = body
  /\ UNCHANGED <<url, theme, animate, userFetch, reposFetch, userData, stats,
                 aggregated, rendered, response, locale>>

\* lines 174-202: repos.forEach throws on a value that is no array;
\* userData.login throws on null
Aggregate ==
  /\ pc = "aggregate"
  /\ IF repos.kind # "array"
     THEN pc' = "catch" /\ UNCHANGED <<stats, aggregated>>
     ELSE /\ aggregated' = TRUE
          /\ IF userData.kind = "null"
             THEN pc' = "catch" /\ UNCHANGED stats
             ELSE pc' = "render" /\ stats' = makeStats(userData, aggregate(repos.items))
  /\ UNCHANGED <<url, theme, animate, userFetch, reposFetch, userData, repos,
                 rendered, response, locale>>

\* lines 204-212
Render ==
  /\ pc = "render"
  /\ rendered' = TRUE
  /\ LET r == generateSVG(stats, theme, animate, locale)
     IN IF r.threw
        THEN pc' = "catch" /\ UNCHANGED response
        ELSE pc' = "done" /\ response' = svgResponse(r.doc[1])
  /\ UNCHANGED <<url, theme, animate, userFetch, reposFetch, userData, repos, stats,
                 aggregated, locale>>

\* lines 213-220
Catch ==
  /\ pc = "catch"
  /\ response' = catchResponse
  /\ pc' = "done"
  /\ UNCHANGED <<url, theme, animate, userFetch, reposFetch, userData, repos, stats,
                 aggregated, rendered, locale>>

Next ==
  \/ Route
  \/ SettleUser
  \/ SettleRepos
  \/ AwaitAll
  \/ CheckOk
  \/ JsonUser
  \/ JsonRepos
  \/ Aggregate
  \/ Render
  \/ Catch

Spec == Init /\ [][Next]_vars

(***************************************************************************)
(* The aggregation on longer repository lists: buildResponse standing at   *)
(* line 174 with both responses ok and decoded.                            *)
(***************************************************************************)
ApiRequest == [pathname |-> "/api/stats", username |-> Str("alice"), theme |-> Null, animate |-> Null]

InitAgg ==
  /\ url = ApiRequest
  /\ pc = "aggregate"
  /\ theme = "default"
  /\ animate = TRUE
  /\ userFetch = "ok"
  /\ reposFetch = "ok"
  /\ userData = [kind |-> "object", login |-> Str("alice"), public_repos |-> Num(3)]
  /\ repos \in [kind : {"array"}, items : SeqsUpTo(AggSamples, MaxAggRepos)]
  /\ stats = NoStats
  /\ aggregated = FALSE
  /\ rendered = FALSE
  /\ response = NoResponse
  /\ locale = "en_US"

NextAgg == Aggregate

SpecAgg == InitAgg /\ [][NextAgg]_vars

(***************************************************************************)
(* generateSVG on Stats values of its whole domain: buildResponse standing *)
(* at line 204 with a Stats value, a theme key and an animate flag.        *)
(***************************************************************************)
Lang(name, count, pct) == [name |-> name, count |-> JsNum(count), percentage |-> pct]
\* percentages 100, 66.66666666666666, 8.333333333333332, 0.01 and 0,
\* with counts that rank them
LangSamples ==
  {Lang("Go", 6, F(100)),
   Lang("TypeScript", 5, percentage(JsNum(2), JsNum(3))),
   Lang("Python", 3, percentage(JsNum(1), JsNum(12))),
   Lang("Haskell", 2, FDivInts(1, 100)),
   Lang("Rust", 1, Zero)}
\* topLanguages lists, ordered by count descending as the aggregation leaves them
LangLists ==
  {l \in SeqsUpTo(LangSamples, MaxLangs) :
     \A i \in 1..(Len(l) - 1) : l[i].count.n >= l[i + 1].count.n}
\* the theme and animate parameters of the requests rendered
RenderThemeParams == {Null, Str("ocean"), Str("nonexistent"), Str("toString")}
RenderAnimateParams == {Null, Str("false")}

InitRender ==
  /\ url \in [pathname : {"/api/stats"}, username : {Str("alice")},
              theme : RenderThemeParams, animate : RenderAnimateParams]
  /\ pc = "render"
  /\ theme = resolveTheme(url.theme)
  /\ animate = parseBoolean(url.animate, TRUE)
  /\ userFetch = "ok"
  /\ reposFetch = "ok"
  /\ userData = NoUserData
  /\ repos = NoRepos
  /\ stats \in [username : {Str("alice")}, totalRepos : {Num(3)}, totalStars : {1234},
                totalForks : {7}, totalCommits : {0},
                topLanguages : LangLists]
  /\ aggregated = TRUE
  /\ rendered = FALSE
  /\ response = NoResponse
  /\ locale \in Locales

NextRender ==
  \/ Render
  \/ Catch

SpecRender == InitRender /\ [][NextRender]_vars

(***************************************************************************)
(* Properties.                                                             *)
(***************************************************************************)
Failed(f) == f \in {"notok", "rejected"}
\* what lines 204-220 answer for a Stats value, a theme key and an animate
\* flag under the default locale loc
renderResponse(st, themeKey, anim, loc) ==
  LET r == generateSVG(st, themeKey, anim, loc)
  IN IF r.threw THEN catchResponse ELSE svgResponse(r.doc[1])
HasImage == response.body.svg # <<>>
Doc == response.body.svg[1]
IsPlainText == response.headers = <<<<"Content-Type", "text/plain; charset=utf-8">>>>

\* C1: the aggregation loop and generateSVG run only after both fetches
\* have resolved with an ok status, and a request one of whose fetches was
\* rejected or came back non-ok is answered 5xx without either having run,
\* in whatever order the two fetches settle.
C1_UpstreamFailureShortCircuits ==
  /\ (aggregated \/ rendered) => (userFetch = "ok" /\ reposFetch = "ok")
  /\ (pc \in {"jsonUser", "jsonRepos", "aggregate", "render"})
       => (userFetch = "ok" /\ reposFetch = "ok")
  /\ (pc = "done" /\ (Failed(userFetch) \/ Failed(reposFetch)))
       => (response.status \in {500, 502} /\ IsPlainText /\ ~HasImage
           /\ ~aggregated /\ ~rendered)

\* a request answered 500 because the repository fetch was rejected after
\* the profile fetch had resolved ok
C1_Witness ==
  /\ pc = "done"
  /\ userFetch = "ok"
  /\ reposFetch = "rejected"
  /\ response.status = 500

\* C2: every answer to an /api/stats request is either 200 with an image
\* built from a Stats value whose username, totalRepos, totalStars and
\* totalForks are all defined, or an error response without an image.
C2_NoPartialRendering ==
  (pc = "done" /\ url.pathname = "/api/stats")
    => \/ /\ response.status = 200
          /\ HasImage
          /\ stats.username.def
          /\ stats.totalRepos.def
          /\ Doc.title.text \notin {<<"@", "undefined">>, <<"@", "null">>}
       \/ /\ response.status \in {400, 500, 502}
          /\ ~HasImage

\* C3: a request whose theme parameter is absent or is none of default,
\* ocean, midnight gets the answer the same stats and animate flag get with
\* theme = "default" (stated for the complete Stats values, which
\* theme = "default" renders).
C3_UnknownThemeRendersDefault ==
  (/\ pc = "done"
   /\ rendered
   /\ stats.username.def
   /\ stats.totalRepos.def
   /\ (~url.theme.def \/ url.theme.v \notin RegisteredThemes))
    => /\ response.status = 200
       /\ response = renderResponse(stats, "default", animate, locale)

\* C4: with animate false, no stat block and no language bar of the
\* returned document carries an animation class or an animation-delay.
C4_NoAnimationWhenOff ==
  (pc = "done" /\ HasImage /\ ~animate)
    => /\ \A k \in 1..Len(Doc.stats) : Doc.stats[k].class = "" /\ Doc.stats[k].style = <<>>
       /\ \A k \in 1..Len(Doc.langs) : Doc.langs[k].class = "" /\ Doc.langs[k].style = <<>>

\* C5: an /api/stats request without a username parameter is answered 400
\* with a plain-text body, whatever theme and animate are.
C5_MissingUsername400 ==
  (pc = "done" /\ url.pathname = "/api/stats" /\ ~url.username.def)
    => /\ response.status = 400
       /\ IsPlainText
       /\ response.body = [text |-> "Missing username", svg |-> <<>>]

\* such a request, answered, with a theme that is an inherited name and
\* animate switched off
C5_Witness ==
  /\ pc = "done"
  /\ url.pathname = "/api/stats"
  /\ ~url.username.def
  /\ url.theme = Str("toString")
  /\ url.animate = Str("false")
  /\ response.status = 400

\* the sum of a field over a repository list, an absent count counting 0
RECURSIVE SumField(_, _, _)
SumField(items, field, i) ==
  IF i > Len(items) THEN 0
  ELSE (IF items[i][field].def THEN items[i][field].v ELSE 0) + SumField(items, field, i + 1)

\* C6: totalStars is the sum of the stargazer counts and totalForks the sum
\* of the fork counts, a missing count contributing 0; both are 0 for the
\* empty list; totalCommits is 0 for every list.
C6_TotalsAreSums ==
  (pc = "render")
    => /\ stats.totalStars = SumField(repos.items, "stargazers_count", 1)
       /\ stats.totalForks = SumField(repos.items, "forks_count", 1)
       /\ (repos.items = <<>> => stats.totalStars = 0 /\ stats.totalForks = 0)
       /\ stats.totalCommits = 0

\* a list with a missing stargazer count, a missing fork count and nonzero totals
C6_Witness ==
  /\ pc = "render"
  /\ \E i \in 1..Len(repos.items) : ~repos.items[i].stargazers_count.def
  /\ \E i \in 1..Len(repos.items) :
       repos.items[i].stargazers_count.def /\ ~repos.items[i].forks_count.def
  /\ stats.totalStars > 10
  /\ stats.totalForks > 2

\* the positions of the repositories tagged with language `name`
Tagged(items, name) == {i \in 1..Len(items) : items[i].language = Str(name)}
\* the languages of a list
LanguagesOf(items) ==
  {items[i].language.v : i \in {j \in 1..Len(items) : TruthyStr(items[j].language)}}
\* where a language is first met
FirstSeen(items, name) == CHOOSE i \in Tagged(items, name) : \A j \in Tagged(items, name) : i <= j

\* C7: topLanguages has exactly one entry per distinct language of the
\* list, with its number of occurrences as count, by count descending and,
\* among equal counts, in the order the languages were first met; nothing
\* is cut off.
C7_TopLanguagesRanked ==
  (pc = "render")
    => LET tl == stats.topLanguages
           items == repos.items
       IN /\ Len(tl) = Cardinality(LanguagesOf(items))
          /\ {tl[k].name : k \in 1..Len(tl)} = LanguagesOf(items)
          /\ \A k \in 1..Len(tl) : tl[k].count = JsNum(Cardinality(Tagged(items, tl[k].name)))
          /\ \A j, k \in 1..Len(tl) :
               j < k => \/ tl[j].count.n > tl[k].count.n
                        \/ /\ tl[j].count.n = tl[k].count.n
                           /\ FirstSeen(items, tl[j].name) < FirstSeen(items, tl[k].name)

\* the percentages added up in list order in double arithmetic, as
\* topLanguages.reduce((s, l) => s + l.percentage, 0) adds them
RECURSIVE FSum(_, _, _)
FSum(tl, i, acc) == IF i > Len(tl) THEN acc ELSE FSum(tl, i + 1, FAdd(acc, tl[i].percentage))

\* the exact sum of the percentages
RECURSIVE ExactSum(_, _, _)
ExactSum(tl, i, acc) ==
  IF i > Len(tl) THEN acc ELSE ExactSum(tl, i + 1, ExactAdd(acc, tl[i].percentage))

\* the number of language-tagged repositories
TaggedCount(items) == Cardinality({i \in 1..Len(items) : TruthyStr(items[i].language)})

\* 2^(-30) < 1e-9
Tolerance == TwoToMinus(30)

\* C8: with a language-tagged entry, every percentage is the number
\* 100 * count / totalLanguageCount and the percentages sum to 100, both up
\* to the floating-point tolerance the specification grants (1e-9 here);
\* without one, topLanguages is empty.
C8_PercentagesSumTo100 ==
  (pc = "render")
    => LET tl == stats.topLanguages
           n == TaggedCount(repos.items)
       IN IF n > 0
          THEN /\ tl # <<>>
               /\ \A k \in 1..Len(tl) : ~IsNaN(tl[k].percentage) /\ tl[k].count.num
               /\ \A k \in 1..Len(tl) :
                    Within(ExactMul(tl[k].percentage, n), F(100 * tl[k].count.n), Tolerance)
               /\ Within(FSum(tl, 1, Zero), F(100), Tolerance)
               /\ Within(ExactSum(tl, 1, Zero), F(100), Tolerance)
          ELSE tl = <<>>

\* 100 times the width the claim gives: max(1000, 120 * percentage), exactly
ExactBarTimes100(p) ==
  IF Leq(ExactMul(p, 120), F(1000)) THEN F(1000) ELSE ExactMul(p, 120)

\* C9: the document has a row for each of the first four topLanguages
\* entries, in order, whose bar is max(10, percentage / 100 * 120) wide:
\* at least 10, exactly 120 at percentage 100, and at most 120 for a
\* percentage up to 100.
C9_BarWidth ==
  (pc = "done" /\ HasImage)
    => LET tl == stats.topLanguages
       IN /\ Len(Doc.langs) = Min(4, Len(tl))
          /\ \A k \in 1..Len(Doc.langs) :
               LET p == tl[k].percentage
                   w == Doc.langs[k].barWidth
               IN /\ Doc.langs[k].name = tl[k].name
                  /\ Leq(F(10), w)
                  /\ (p = F(100) => w = F(120))
                  /\ (Leq(p, F(100)) => Leq(w, F(120)))
                  /\ Within(ExactMul(w, 100), ExactBarTimes100(p), Tolerance)

\* five entries rendered as four rows, one at the floor and one full
C9_Witness ==
  /\ pc = "done"
  /\ HasImage
  /\ Len(stats.topLanguages) = 5
  /\ Len(Doc.langs) = 4
  /\ stats.topLanguages[1].percentage = F(100)
  /\ Doc.langs[1].barWidth = F(120)
  /\ stats.topLanguages[2].percentage = percentage(JsNum(2), JsNum(3))
  /\ Doc.langs[2].barWidth # F(10)
  /\ Doc.langs[2].barWidth # F(120)
  /\ stats.topLanguages[4].percentage = FDivInts(1, 100)
  /\ Doc.langs[4].barWidth = F(10)

\* C10 as claimed: the divider lies at y = 35 and spans canvasWidth - 75.
C10_DividerSpans75Less ==
  (pc = "done" /\ HasImage)
    => /\ Doc.divider.y1 = 35
       /\ Doc.divider.y2 = 35
       /\ Doc.divider.x2 - Doc.divider.x1 = Doc.width - 75

\* C10 as amended: the divider lies at y = 35 and spans canvasWidth - 50,
\* from x = 0 on.
C10_DividerSpans50Less ==
  (pc = "done" /\ HasImage)
    => /\ Doc.divider.y1 = 35
       /\ Doc.divider.y2 = 35
       /\ Doc.divider.x1 = 0
       /\ Doc.divider.x2 - Doc.divider.x1 = Doc.width - 50

\* a rendered document, 460 wide, its divider ending at x = 410
C10_Witness ==
  /\ pc = "done"
  /\ HasImage
  /\ Doc.width = 460
  /\ Doc.divider.x2 = 410

====
